---- MODULE Spec2Model ----
(***************************************************************************)
(* Model of setup.py (pysam): the resolution of the htslib build          *)
(* parameters.                                                             *)
(*                                                                         *)
(* Python values.  A str is a sequence of whitespace-free tokens (the      *)
(* string is the tokens joined by single blanks); the empty string is      *)
(* << >>.  None is the one-token sequence None, which no string of the     *)
(* model equals.  A list is a sequence.  A text file is a sequence of      *)
(* lines, a line a sequence of tokens.                                     *)
(*                                                                         *)
(* Specifications.                                                         *)
(*   Spec           setup.py run as a script, from line 277.               *)
(*                  check_cython raises at its logging call, so the run    *)
(*                  ends at line 281.                                      *)
(*   SpecResolve    the module-level statements of lines 283-361, entered  *)
(*                  with the values check_cython computes at lines 91-93   *)
(*                  and 97-100 bound to its three targets of line 281:     *)
(*                  what these statements do once line 281 has returned.   *)
(*   SpecConfigure  configure_library called with arbitrary arguments, and *)
(*                  update_htslib_configure_options called on its own.     *)
(*   SpecConfig     build_config called on an arbitrary htslib/config.h.   *)
(***************************************************************************)
EXTENDS Integers, Sequences, FiniteSets, TLC

VARIABLES
    pc,          \* the statement about to run
    env,         \* os.environ, the importability of cy_build, IS_PYTHON3,
                 \* the sources the tree holds before the run
    exists,      \* the paths for which os.path.exists is true
    config_h,    \* content of htslib/config.h and samtools/config.h
    config_py,   \* content of pysam/config.py
    cwd,         \* os.getcwd(), as path components below the start directory
    G,           \* the module's global names
    cl,          \* the frame of configure_library
    attempts,    \* the ./configure commands run so far, with their outcomes
    exc,         \* the exception that ended the run, or NoExc
    phases,      \* the resolver phases entered so far, in order
    entry        \* what was invoked: setup.py, or one of its functions

vars ==
    <<pc, env, exists, config_h, config_py, cwd, G, cl, attempts, exc, phases,
      entry>>

----------------------------------------------------------------------------
(* Bounds *)

MaxTokens == 2      \* tokens in HTSLIB_CONFIGURE_OPTIONS
MaxOptions == 3     \* length of the fallback list given to configure_library
MaxLines == 2       \* lines of an arbitrary htslib/config.h

----------------------------------------------------------------------------
(* Python values *)

None == <<"None">>
NoExc == "NoExc"

Truthy(s) == s /= None /\ s /= << >>

\* str.__contains__ for a needle that is one token: no token of the model
\* contains another, so the needle occurs iff it is one of the tokens.
Contains(s, needle) == \E i \in 1..Len(s) : s[i] = needle

SeqsUpTo(S, n) == UNION {[1..k -> S] : k \in 0..n}

RECURSIVE Filter(_, _)
\* [x for x in xs if x not in excluded]
Filter(xs, excluded) ==
    IF xs = << >> THEN << >>
    ELSE IF Head(xs) \in excluded THEN Filter(Tail(xs), excluded)
         ELSE <<Head(xs)>> \o Filter(Tail(xs), excluded)

Count(xs, x) == Cardinality({i \in 1..Len(xs) : xs[i] = x})

----------------------------------------------------------------------------
(* The environment of a run *)

StartDir == <<"pysam">>

Tokens == {"--enable-libcurl", "--disable-libcurl", "--enable-plugins"}

\* The values os.environ.get can give for HTSLIB_CONFIGURE_OPTIONS.
EnvOptions == {None} \cup SeqsUpTo(Tokens, MaxTokens)

PythonVersions == {"2.7", "3.4-darwin", "3.4-linux", "3.5"}

Environments ==
    [HTSLIB_LIBRARY_DIR : {None, << >>, <<"/usr/local">>},
     HTSLIB_INCLUDE_DIR : {None, <<"/usr/local/include">>},
     HTSLIB_CONFIGURE_OPTIONS : EnvOptions,
     cy_build : BOOLEAN,
     python : PythonVersions,
     c_sources : BOOLEAN,
     pyx_sources : BOOLEAN]

IS_PYTHON3 == env.python /= "2.7"

\* parts, lines 333-343
parts ==
    <<"samtools", "bcftools", "htslib", "tabix", "faidx", "samfile", "utils",
      "alignmentfile", "tabixproxies", "vcf", "bcf">>

\* "pysam/c%s.c" % part, the file line 350 unlinks.
CFile(part) == <<"pysam", "c" \o part \o ".c">>

\* source_pattern % part, for the two patterns of check_cython.
SourceFile(source_pattern, part) ==
    IF source_pattern = "pysam/c%s.pyx"
    THEN <<"pysam", "c" \o part \o ".pyx">>
    ELSE CFile(part)

\* The generated C files and the .pyx files a source tree holds before the
\* run: a distribution ships the former, the repository the latter.
SourceTree(e) ==
    (IF e.c_sources THEN {CFile(parts[i]) : i \in 1..Len(parts)} ELSE {})
    \cup (IF e.pyx_sources
          THEN {SourceFile("pysam/c%s.pyx", parts[i]) : i \in 1..Len(parts)}
          ELSE {})

\* Tracked files, named relative to the start directory.
Configure(library_dir) == library_dir \o <<"configure">>
HtslibConfigH == <<"htslib", "config.h">>
SamtoolsConfigH == <<"samtools", "config.h">>
ConfigHs == {SamtoolsConfigH, HtslibConfigH}

\* glob.glob("htslib/*.c") and glob.glob("htslib/cram/*.c") in the start
\* directory.
GlobHtslibC ==
    <<"htslib/bgzip.c", "htslib/hfile_irods.c", "htslib/hfile_libcurl.c",
      "htslib/hts.c", "htslib/htsfile.c", "htslib/tabix.c">>
GlobCramC == <<"htslib/cram/cram_io.c">>

PlaceholderHeader ==
    << <<"/*", "empty", "config.h", "created", "by", "pysam", "*/">>,
       <<"/*", "conservative", "compilation", "options", "*/">> >>

\* A config.h a user left in the tree before the run.
UserHeader == << <<"#define", "HAVE_MMAP", "1">> >>

Define(key, value) == <<"#define", key, value>>

\* The config.h files ./configure may leave behind when it exits 0 on
\* `option`: HAVE_LIBCURL is defined 1 when the option string switches libcurl
\* on, is not defined when the string does not mention --enable-libcurl, and
\* may be either when the string carries both switches; other flags vary.
ConfigureHeaders(option) ==
    LET with == << Define("HAVE_LIBCURL", "1") >>
        curl == IF ~Contains(option, "--enable-libcurl") THEN {<< >>}
                ELSE IF ~Contains(option, "--disable-libcurl") THEN {with}
                ELSE {<< >>, with}
    IN  { c \o rest : c \in curl,
                      rest \in {<< >>, << Define("HAVE_MMAP", "1") >>} }

\* What one ./configure command can do (subprocess.call, lines 54-56):
\* exit 0, exit non-zero, fail to launch (OSError), or be interrupted by an
\* exception that is no OSError (KeyboardInterrupt).
Outcomes == {"exit0", "nonzero", "OSError", "KeyboardInterrupt"}

----------------------------------------------------------------------------
(* Pure functions of setup.py *)

\* The three locals check_cython has assigned when it reaches its logging
\* call: lines 91-93 when cy_build imports, lines 97-100 on ImportError.
CheckCythonLocals(importable) ==
    IF importable
    THEN [source_pattern |-> "pysam/c%s.pyx", cmdclass |-> "build_ext",
          htslib_mode |-> "shared"]
    ELSE [source_pattern |-> "pysam/c%s.c", cmdclass |-> "none",
          htslib_mode |-> "separate"]

\* EXCLUDE["htslib"]
ExcludeHtslib ==
    {"htslib/bgzip.c", "htslib/hfile_irods.c", "htslib/htsfile.c",
     "htslib/tabix.c"}

get_htslib_source(htslib_mode) ==
    IF htslib_mode \in {"shared", "separate"} THEN "builtin" ELSE ""

get_internal_htslib_libraries_for_shared(python) ==
    IF python /= "2.7"
    THEN IF python = "3.5" THEN <<"chtslib.SOABI">>
         ELSE IF python = "3.4-darwin" THEN <<"chtslib">>
         ELSE <<"chtslib.cache_tag+abiflags">>
    ELSE <<"chtslib">>

\* The vendored sources of the 'separate' and 'shared' branches: the two
\* globs are relative to the working directory.
VendoredSources(dir) ==
    Filter(IF dir = StartDir THEN GlobHtslibC \o GlobCramC ELSE << >>,
           ExcludeHtslib)

\* gen_htslib_vars: the 7-tuple as a record; err is the exception raised.
gen_htslib_vars(htslib_library_dir, htslib_include_dir, htslib_mode, python, dir) ==
    IF Truthy(htslib_library_dir)
    THEN [err |-> NoExc,
          htslib_sources |-> << >>, shared_htslib_sources |-> << >>,
          chtslib_sources |-> << >>,
          htslib_library_dirs |-> <<htslib_library_dir>>,
          htslib_include_dirs |-> <<htslib_include_dir>>,
          internal_htslib_libraries |-> << >>,
          external_htslib_libraries |-> <<"z", "hts">>]
    ELSE IF htslib_mode = "separate"
    THEN [err |-> NoExc,
          htslib_sources |-> VendoredSources(dir),
          shared_htslib_sources |-> VendoredSources(dir),
          chtslib_sources |-> << >>,
          htslib_library_dirs |-> << >>,
          htslib_include_dirs |-> << <<"htslib">> >>,
          internal_htslib_libraries |-> << >>,
          external_htslib_libraries |-> <<"z">>]
    ELSE IF htslib_mode = "shared"
    THEN [err |-> NoExc,
          htslib_sources |-> << >>,
          shared_htslib_sources |-> VendoredSources(dir),
          chtslib_sources |-> << >>,
          htslib_library_dirs |-> << <<"pysam">>, <<".">> >>,
          htslib_include_dirs |-> << <<"htslib">> >>,
          internal_htslib_libraries |->
              get_internal_htslib_libraries_for_shared(python),
          external_htslib_libraries |-> <<"z">>]
    ELSE [err |-> "ValueError",
          htslib_sources |-> << >>, shared_htslib_sources |-> << >>,
          chtslib_sources |-> << >>, htslib_library_dirs |-> << >>,
          htslib_include_dirs |-> << >>,
          internal_htslib_libraries |-> << >>,
          external_htslib_libraries |-> << >>]

----------------------------------------------------------------------------
(* build_config: feature-flag extraction *)

WhitelistKeys ==
    <<"ENABLE_PLUGINS", "HAVE_COMMONCRYPTO", "HAVE_GMTIME_R", "HAVE_HMAC",
      "HAVE_IRODS", "HAVE_LIBCURL", "HAVE_MMAP">>

\* line.startswith("#define"), by the line's first token.
StartsWithDefine(line) ==
    line /= << >> /\ line[1] \in {"#define", "#defined"}

\* re.match("#define (\S+)\s+(\S+)", line) is not None: "#define", one
\* blank, a key, and a value before the end of the line.
MatchesDefine(line) == Len(line) >= 3 /\ line[1] = "#define"

\* The tokens int() converts, with their values; int() raises ValueError on
\* any other token.
IntLiterals == ("0" :> 0) @@ ("1" :> 1) @@ ("2" :> 2)

\* config_values[key], a collections.defaultdict(int)
Lookup(values, key) == IF key \in DOMAIN values THEN values[key] ELSE 0

Store(values, key, v) ==
    [k \in DOMAIN values \cup {key} |-> IF k = key THEN v ELSE values[k]]

RECURSIVE ParseHeader(_, _)
\* The loop of lines 251-255 over the remaining lines: the mapping reached,
\* or the exception of the first line that raises.
ParseHeader(lines, values) ==
    IF lines = << >> THEN [err |-> NoExc, values |-> values]
    ELSE LET line == Head(lines)
         IN  IF ~StartsWithDefine(line) THEN ParseHeader(Tail(lines), values)
             ELSE IF ~MatchesDefine(line)
             THEN [err |-> "AttributeError", values |-> values]
             ELSE IF line[3] \notin DOMAIN IntLiterals
             THEN [err |-> "ValueError", values |-> values]
             ELSE ParseHeader(Tail(lines),
                              Store(values, line[2], IntLiterals[line[3]]))

\* The lines "{} = {}" of lines 256-263, one per whitelisted key.
FlagLines(values) ==
    [i \in 1..Len(WhitelistKeys) |->
        [key |-> WhitelistKeys[i], value |-> Lookup(values, WhitelistKeys[i])]]

NoFlags == [k \in {} |-> 0]

\* build_config(htslib_source) with the global HTSLIB_SOURCE, run in
\* directory dir: the exception raised and pysam/config.py as it is left.
build_config(htslib_source, HTSLIB_SOURCE, dir, header_exists, header) ==
    IF dir /= StartDir
    THEN [err |-> "IOError", written |-> FALSE, HTSLIB |-> "", flags |-> << >>]
    ELSE IF htslib_source /= "builtin"
    THEN [err |-> NoExc, written |-> TRUE, HTSLIB |-> HTSLIB_SOURCE,
          flags |-> << >>]
    ELSE IF ~header_exists
    THEN [err |-> "IOError", written |-> TRUE, HTSLIB |-> HTSLIB_SOURCE,
          flags |-> << >>]
    ELSE LET r == ParseHeader(header, NoFlags)
         IN  [err |-> r.err, written |-> TRUE, HTSLIB |-> HTSLIB_SOURCE,
              flags |-> IF r.err = NoExc THEN FlagLines(r.values) ELSE << >>]

\* Lines of an arbitrary htslib/config.h.
HeaderLines ==
    { <<"/*", "comment", "*/">>,
      Define("HAVE_LIBCURL", "1"), Define("HAVE_LIBCURL", "0"),
      Define("HAVE_MMAP", "2"), Define("OTHER_FLAG", "1"),
      <<"#define", "HAVE_HMAC">>,
      Define("PACKAGE_NAME", "\"HTSlib\""),
      <<"#undef", "HAVE_IRODS">> }

----------------------------------------------------------------------------
(* Initial states *)

UnboundGlobals ==
    [HTSLIB_MODE |-> "unbound", source_pattern |-> "unbound",
     cmdclass |-> "unbound", HTSLIB_SOURCE |-> "unbound",
     htslib_configure_options |-> None,
     htslib_sources |-> << >>, shared_htslib_sources |-> << >>,
     chtslib_sources |-> << >>, htslib_library_dirs |-> << >>,
     htslib_include_dirs |-> << >>, internal_htslib_libraries |-> << >>,
     external_htslib_libraries |-> << >>]

NoFrame ==
    [library_dir |-> << >>, env_options |-> None, options |-> << >>,
     i |-> 0, save_dir |-> << >>, ret |-> None, err |-> NoExc]

NoConfigPy == [written |-> FALSE, HTSLIB |-> "", flags |-> << >>]

\* The files of the source tree before the run: with or without the
\* configure script, with or without config.h files left by the user.
InitFiles ==
    /\ \E tree \in SUBSET {Configure(<<"htslib">>), HtslibConfigH, SamtoolsConfigH} :
          exists = tree \cup SourceTree(env)
    /\ config_h = [f \in ConfigHs |-> IF f \in exists THEN UserHeader ELSE << >>]
    /\ config_py = NoConfigPy
    /\ cwd = StartDir

InitIdle ==
    /\ attempts = << >>
    /\ exc = NoExc

\* setup.py starts: lines 277-279 have read the environment.
Init ==
    /\ entry = "setup.py"
    /\ env \in Environments
    /\ InitFiles /\ InitIdle
    /\ G = UnboundGlobals
    /\ cl = NoFrame
    /\ phases = <<"Start">>
    /\ pc = "check_cython"

\* Line 283 is reached: the three targets of line 281 hold the locals of
\* check_cython.
InitResolve ==
    /\ entry = "resolve"
    /\ env \in Environments
    /\ InitFiles /\ InitIdle
    /\ G = [UnboundGlobals EXCEPT
              !.HTSLIB_MODE = CheckCythonLocals(env.cy_build).htslib_mode,
              !.source_pattern = CheckCythonLocals(env.cy_build).source_pattern,
              !.cmdclass = CheckCythonLocals(env.cy_build).cmdclass]
    /\ cl = NoFrame
    /\ phases = <<"Start", "ModeSelected">>
    /\ pc = "get_htslib_source"

DefaultEnv ==
    [HTSLIB_LIBRARY_DIR |-> None, HTSLIB_INCLUDE_DIR |-> None,
     HTSLIB_CONFIGURE_OPTIONS |-> None, cy_build |-> TRUE, python |-> "3.5",
     c_sources |-> FALSE, pyx_sources |-> FALSE]

\* Option strings of the argument lists given to configure_library.
ListOptions == {<<t>> : t \in Tokens}

\* configure_library("htslib", env_options, options) is called on its own,
\* or update_htslib_configure_options(htslib_mode, options) is.
InitConfigure ==
    /\ exists \in SUBSET {Configure(<<"htslib">>), HtslibConfigH}
    /\ config_h = [f \in ConfigHs |-> IF f \in exists THEN UserHeader ELSE << >>]
    /\ config_py = NoConfigPy
    /\ cwd = StartDir
    /\ InitIdle
    /\ phases = << >>
    /\ \/ /\ entry = "configure_library"
          /\ env = DefaultEnv
          /\ G = UnboundGlobals
          /\ \E e \in {None, << >>} \cup ListOptions,
                os \in SeqsUpTo(ListOptions, MaxOptions) :
                  cl = [NoFrame EXCEPT !.library_dir = <<"htslib">>,
                                       !.env_options = e, !.options = os]
          /\ pc = "cl_exists"
       \/ /\ entry = "update_htslib_configure_options"
          /\ \E o \in EnvOptions :
                env = [DefaultEnv EXCEPT !.HTSLIB_CONFIGURE_OPTIONS = o]
          /\ \E mode \in {"shared", "separate", "external"} :
                G = [UnboundGlobals EXCEPT !.HTSLIB_MODE = mode]
          /\ cl = NoFrame
          /\ pc = "update_htslib_configure_options"

\* build_config(get_htslib_source(mode)) is called on some htslib/config.h.
InitConfig ==
    /\ entry = "build_config"
    /\ env = DefaultEnv
    /\ \E mode \in {"shared", "separate", "external"} :
          G = [UnboundGlobals EXCEPT !.HTSLIB_MODE = mode,
                                     !.HTSLIB_SOURCE = get_htslib_source(mode)]
    /\ \E present \in BOOLEAN, h \in SeqsUpTo(HeaderLines, MaxLines) :
          /\ exists = IF present THEN {HtslibConfigH} ELSE {}
          /\ config_h = [f \in ConfigHs |->
                            IF present /\ f = HtslibConfigH THEN h ELSE << >>]
          /\ (~present => h = << >>)
    /\ config_py = NoConfigPy
    /\ cwd = StartDir
    /\ InitIdle
    /\ cl = NoFrame
    /\ phases = << >>
    /\ pc = "build_config"

----------------------------------------------------------------------------
(* check_cython, called at line 281 *)

\* Line 90: the import of cy_build succeeds, or raises the ImportError that
\* line 95 catches.
CheckCythonImport ==
    /\ pc = "check_cython"
    /\ pc' = IF env.cy_build THEN "check_cython_info" ELSE "check_cython_warning"
    /\ UNCHANGED <<env, exists, config_h, config_py, cwd, G, cl, attempts, exc,
                   phases, entry>>

\* Lines 94 and 102 format the global HTSLIB_MODE into the log message; a
\* global that is not bound raises NameError, which no handler of
\* check_cython catches.  Otherwise line 103 returns and line 281 binds.
CheckCythonLog ==
    /\ pc \in {"check_cython_info", "check_cython_warning"}
    /\ IF G.HTSLIB_MODE = "unbound"
       THEN /\ exc' = "NameError"
            /\ pc' = "aborted"
            /\ UNCHANGED <<G, phases>>
       ELSE /\ LET r == CheckCythonLocals(pc = "check_cython_info")
               IN  G' = [G EXCEPT !.HTSLIB_MODE = r.htslib_mode,
                                  !.source_pattern = r.source_pattern,
                                  !.cmdclass = r.cmdclass]
            /\ phases' = Append(phases, "ModeSelected")
            /\ pc' = "get_htslib_source"
            /\ UNCHANGED exc
    /\ UNCHANGED <<env, exists, config_h, config_py, cwd, cl, attempts, entry>>

----------------------------------------------------------------------------
(* configure_library and run_configure *)

\* changedir, lines 44-45: the directory entered.
changedir_enter(dir, path) == dir \o path

\* changedir with line 49 left out: the directory is not restored.
changedir_exit_stays(save_dir, dir) == dir

\* changedir, lines 48-49: the directory after the finally clause.
changedir_exit(save_dir, dir) == save_dir

\* run_configure with the test of line 57 inverted.
run_configure_inverted(outcome) == outcome /= "exit0"

\* run_configure, lines 57-62: the value returned for an outcome that
\* raises nothing run_configure does not catch.
run_configure(outcome) == outcome = "exit0"

\* run_configure without its except clause: OSError leaves it too.
PropagatesOSError(outcome) == outcome \in {"KeyboardInterrupt", "OSError"}

\* run_configure, lines 53 and 61: the outcomes whose exception leaves
\* run_configure, which catches OSError alone.
Propagates(outcome) == outcome = "KeyboardInterrupt"

\* The outcomes ./configure can have in directory dir: the script is
\* found only in the library directory.
OutcomesIn(dir, library_dir) ==
    IF dir = StartDir \o library_dir THEN Outcomes ELSE Outcomes \ {"exit0"}

\* Lines 66-70.
ClCheckScript ==
    /\ pc = "cl_exists"
    /\ IF Configure(cl.library_dir) \in exists /\ cwd = StartDir
       THEN pc' = "cl_enter" /\ UNCHANGED exc
       ELSE pc' = "aborted" /\ exc' = "ValueError"
    /\ UNCHANGED <<env, exists, config_h, config_py, cwd, G, cl, attempts,
                   phases, entry>>

\* Line 72: the with statement enters changedir(library_dir).
ClEnter ==
    /\ pc = "cl_enter"
    /\ cl' = [cl EXCEPT !.save_dir = cwd, !.i = 1]
    /\ cwd' = changedir_enter(cwd, cl.library_dir)
    /\ pc' = "cl_env"
    /\ UNCHANGED <<env, exists, config_h, config_py, G, attempts, exc, phases,
                   entry>>

\* One call run_configure(option) with outcome o, the script leaving
\* header h behind when it exits 0.
Attempt(option, o, h) ==
    /\ attempts' = Append(attempts, [option |-> option, outcome |-> o])
    /\ IF o = "exit0"
       THEN /\ exists' = exists \cup {cl.library_dir \o <<"config.h">>}
            /\ config_h' = [config_h EXCEPT ![cl.library_dir \o <<"config.h">>] = h]
       ELSE UNCHANGED <<exists, config_h>>

\* Lines 73-75.
ClEnvAttempt ==
    /\ pc = "cl_env"
    /\ IF cl.env_options /= None
       THEN \E o \in OutcomesIn(cwd, cl.library_dir),
               h \in ConfigureHeaders(cl.env_options) :
              /\ Attempt(cl.env_options, o, h)
              /\ IF Propagates(o)
                 THEN cl' = [cl EXCEPT !.err = o] /\ pc' = "cl_exit"
                 ELSE IF run_configure(o)
                 THEN cl' = [cl EXCEPT !.ret = cl.env_options] /\ pc' = "cl_exit"
                 ELSE pc' = "cl_loop" /\ UNCHANGED cl
       ELSE /\ pc' = "cl_loop"
            /\ UNCHANGED <<cl, attempts, exists, config_h>>
    /\ UNCHANGED <<env, config_py, cwd, G, exc, phases, entry>>

\* Lines 77-79, one iteration; line 80 when the list is exhausted.
ClLoop ==
    /\ pc = "cl_loop"
    /\ IF cl.i <= Len(cl.options)
       THEN \E o \in OutcomesIn(cwd, cl.library_dir),
               h \in ConfigureHeaders(cl.options[cl.i]) :
              /\ Attempt(cl.options[cl.i], o, h)
              /\ IF Propagates(o)
                 THEN cl' = [cl EXCEPT !.err = o] /\ pc' = "cl_exit"
                 ELSE IF run_configure(o)
                 THEN cl' = [cl EXCEPT !.ret = cl.options[cl.i]] /\ pc' = "cl_exit"
                 ELSE cl' = [cl EXCEPT !.i = cl.i + 1] /\ pc' = "cl_loop"
       ELSE /\ cl' = [cl EXCEPT !.ret = None]
            /\ pc' = "cl_exit"
            /\ UNCHANGED <<attempts, exists, config_h>>
    /\ UNCHANGED <<env, config_py, cwd, G, exc, phases, entry>>

\* The with statement is left (lines 48-49), by return or by exception;
\* then the caller resumes, or the exception propagates.
ClExit ==
    /\ pc = "cl_exit"
    /\ cwd' = changedir_exit(cl.save_dir, cwd)
    /\ IF cl.err /= NoExc
       THEN exc' = cl.err /\ pc' = "aborted"
       ELSE /\ UNCHANGED exc
            /\ pc' = IF entry = "configure_library" THEN "returned"
                     ELSE "update_return"
    /\ UNCHANGED <<env, exists, config_h, config_py, G, cl, attempts, phases,
                   entry>>

----------------------------------------------------------------------------
(* The module-level statements of lines 283-331 *)

Abort(e) == exc' = e /\ pc' = "aborted"

\* Lines 285-286.
GetHtslibSource ==
    /\ pc = "get_htslib_source"
    /\ G' = [G EXCEPT !.htslib_configure_options = None,
                      !.HTSLIB_SOURCE = get_htslib_source(G.HTSLIB_MODE)]
    /\ pc' = "update_htslib_configure_options"
    /\ UNCHANGED <<env, exists, config_h, config_py, cwd, cl, attempts, exc,
                   phases, entry>>

\* Lines 287-288 call update_htslib_configure_options, whose lines 162-166
\* call configure_library("htslib", options, ["--enable-libcurl"]); in
\* another mode line 175 reads the local `options` before it is assigned.
UpdateCall ==
    /\ pc = "update_htslib_configure_options"
    /\ IF G.HTSLIB_MODE \in {"shared", "separate"}
       THEN /\ cl' = [NoFrame EXCEPT
                        !.library_dir = <<"htslib">>,
                        !.env_options = env.HTSLIB_CONFIGURE_OPTIONS,
                        !.options = << <<"--enable-libcurl">> >>]
            /\ pc' = "cl_exists"
            /\ UNCHANGED exc
       ELSE Abort("UnboundLocalError") /\ UNCHANGED cl
    /\ UNCHANGED <<env, exists, config_h, config_py, cwd, G, attempts, phases,
                   entry>>

\* The phase update_htslib_configure_options ends in.
ConfiguredPhase(options) ==
    IF options = None THEN "ConfigurationFallback" ELSE "Configured"

\* Lines 168-175, and the assignment of line 287: the placeholder header is
\* written when configure_library returned None.
UpdateReturn ==
    /\ pc = "update_return"
    /\ IF cl.ret = None /\ cwd /= StartDir
       THEN Abort("IOError") /\ UNCHANGED <<exists, config_h, G, phases>>
       ELSE /\ IF cl.ret = None
               THEN /\ exists' = exists \cup {HtslibConfigH}
                    /\ config_h' = [config_h EXCEPT ![HtslibConfigH] = PlaceholderHeader]
               ELSE UNCHANGED <<exists, config_h>>
            /\ G' = [G EXCEPT !.htslib_configure_options = cl.ret]
            /\ phases' = Append(phases, ConfiguredPhase(cl.ret))
            /\ pc' = IF entry = "resolve" THEN "gen_htslib_vars" ELSE "returned"
            /\ UNCHANGED exc
    /\ UNCHANGED <<env, config_py, cwd, cl, attempts, entry>>

\* Line 302 left out: lines 305-323 follow lines 291-300.
AfterGenHtslibVarsSkipsConfig == "compensate"

\* The statement that follows lines 291-300: line 302.
AfterGenHtslibVars == "build_config"

\* Lines 291-300.
GenHtslibVars ==
    /\ pc = "gen_htslib_vars"
    /\ LET r == gen_htslib_vars(env.HTSLIB_LIBRARY_DIR, env.HTSLIB_INCLUDE_DIR,
                                G.HTSLIB_MODE, env.python, cwd)
       IN  IF r.err /= NoExc
           THEN Abort(r.err) /\ UNCHANGED <<G, phases>>
           ELSE /\ G' = [G EXCEPT
                           !.htslib_sources = r.htslib_sources,
                           !.shared_htslib_sources = r.shared_htslib_sources,
                           !.chtslib_sources = r.chtslib_sources,
                           !.htslib_library_dirs = r.htslib_library_dirs,
                           !.htslib_include_dirs = r.htslib_include_dirs,
                           !.internal_htslib_libraries = r.internal_htslib_libraries,
                           !.external_htslib_libraries = r.external_htslib_libraries]
                /\ phases' = Append(phases, "DescriptorBuilt")
                /\ pc' = AfterGenHtslibVars
                /\ UNCHANGED exc
    /\ UNCHANGED <<env, exists, config_h, config_py, cwd, cl, attempts, entry>>

\* Line 302, or build_config called on its own.
BuildConfig ==
    /\ pc = "build_config"
    /\ LET r == build_config(G.HTSLIB_SOURCE, G.HTSLIB_SOURCE, cwd,
                             HtslibConfigH \in exists, config_h[HtslibConfigH])
       IN  /\ config_py' = IF r.written
                           THEN [written |-> TRUE, HTSLIB |-> r.HTSLIB,
                                 flags |-> r.flags]
                           ELSE config_py
           /\ IF r.err /= NoExc
              THEN Abort(r.err) /\ UNCHANGED phases
              ELSE /\ UNCHANGED exc
                   /\ IF entry = "build_config"
                      THEN pc' = "returned" /\ UNCHANGED phases
                      ELSE /\ pc' = "compensate"
                           /\ phases' = Append(phases, "FlagsExtracted")
    /\ UNCHANGED <<env, exists, config_h, cwd, G, cl, attempts, entry>>

\* EXCLUDE_HTSLIB, line 306
EXCLUDE_HTSLIB == {"htslib/hfile_libcurl.c"}

\* Lines 305-323: which of the three branches runs for the options that
\* configure_library returned; "none" when no branch does.
CompensationBranch(HTSLIB_SOURCE, options) ==
    IF HTSLIB_SOURCE /= "builtin" THEN "none"
    ELSE IF options = None THEN "conservative"
    ELSE IF Contains(options, "--disable-libcurl") THEN "disabled"
    ELSE IF Contains(options, "--enable-libcurl") THEN "enabled"
    ELSE "none"

\* Lines 310-313 and 316-319: the rebinding of a source list.
CompensatedSources(branch, sources) ==
    IF branch \in {"conservative", "disabled"}
    THEN Filter(sources, EXCLUDE_HTSLIB) ELSE sources

\* Line 323 run whatever the branch.
CompensatedLibrariesAlways(branch, libraries) == libraries \o <<"curl", "crypto">>

\* Line 323: external_htslib_libraries.extend(["curl", "crypto"]).
CompensatedLibraries(branch, libraries) ==
    IF branch = "enabled" THEN libraries \o <<"curl", "crypto">> ELSE libraries

Compensate ==
    /\ pc = "compensate"
    /\ LET b == CompensationBranch(G.HTSLIB_SOURCE, G.htslib_configure_options)
       IN  G' = [G EXCEPT
                   !.htslib_sources = CompensatedSources(b, @),
                   !.shared_htslib_sources = CompensatedSources(b, @),
                   !.external_htslib_libraries = CompensatedLibraries(b, @)]
    /\ phases' = Append(phases, "ExclusionsApplied")
    /\ pc' = "create_config_h"
    /\ UNCHANGED <<env, exists, config_h, config_py, cwd, cl, attempts, exc,
                   entry>>

\* Lines 329-331 without the test of line 328: the file is always rewritten.
CheckedHeaderAlwaysWrites(present, content) == PlaceholderHeader

\* Lines 328-331 for one file: its content after the existence check.
CheckedHeader(present, content) ==
    IF present THEN content ELSE PlaceholderHeader

\* Lines 327-331, over both files.
CreateConfigH ==
    /\ pc = "create_config_h"
    /\ IF cwd /= StartDir
       THEN Abort("IOError") /\ UNCHANGED <<exists, config_h, phases>>
       ELSE /\ config_h' = [f \in ConfigHs |->
                               CheckedHeader(f \in exists, config_h[f])]
            /\ exists' = exists \cup ConfigHs
            /\ phases' = Append(phases, "Done")
            /\ pc' = "done"
            /\ UNCHANGED exc
    /\ UNCHANGED <<env, config_py, cwd, G, cl, attempts, entry>>

\* Lines 347-352: under Python 3 every pysam/c<part>.c is unlinked, a
\* failing unlink being ignored.
Unlinked(is_python3, files) ==
    IF is_python3
    THEN files \ {CFile(parts[i]) : i \in 1..Len(parts)}
    ELSE files

UnlinkGenerated ==
    /\ pc = "done"
    /\ exists' = IF cwd = StartDir THEN Unlinked(IS_PYTHON3, exists) ELSE exists
    /\ pc' = "check_source"
    /\ UNCHANGED <<env, config_h, config_py, cwd, G, cl, attempts, exc, phases,
                   entry>>

\* Lines 355-361: the source of the htslib extension must exist.
CheckSource ==
    /\ pc = "check_source"
    /\ IF cwd = StartDir /\ SourceFile(G.source_pattern, "htslib") \in exists
       THEN pc' = "sources_checked" /\ UNCHANGED exc
       ELSE Abort("ValueError")
    /\ UNCHANGED <<env, exists, config_h, config_py, cwd, G, cl, attempts,
                   phases, entry>>

----------------------------------------------------------------------------
(* Specifications *)

Next == CheckCythonImport \/ CheckCythonLog

Spec == Init /\ [][Next]_vars

NextConfigure ==
    \/ UpdateCall
    \/ ClCheckScript
    \/ ClEnter
    \/ ClEnvAttempt
    \/ ClLoop
    \/ ClExit
    \/ UpdateReturn

SpecConfigure == InitConfigure /\ [][NextConfigure]_vars

NextResolve ==
    \/ GetHtslibSource
    \/ NextConfigure
    \/ GenHtslibVars
    \/ BuildConfig
    \/ Compensate
    \/ CreateConfigH
    \/ UnlinkGenerated
    \/ CheckSource

SpecResolve == InitResolve /\ [][NextResolve]_vars

NextConfig == BuildConfig

SpecConfig == InitConfig /\ [][NextConfig]_vars

----------------------------------------------------------------------------
(* Claims *)

Elements(xs) == {xs[i] : i \in 1..Len(xs)}

\* The value pysam/config.py records for a key; -1 when it has no line for it.
FlagValue(key) ==
    IF \E i \in 1..Len(config_py.flags) : config_py.flags[i].key = key
    THEN config_py.flags[CHOOSE i \in 1..Len(config_py.flags) :
                            config_py.flags[i].key = key].value
    ELSE -1

ExternalSupplied == Truthy(env.HTSLIB_LIBRARY_DIR)

LibcurlEnabled ==
    /\ G.htslib_configure_options /= None
    /\ Contains(G.htslib_configure_options, "--enable-libcurl")
    /\ ~Contains(G.htslib_configure_options, "--disable-libcurl")

C7_ModeSelectionCompletes ==
    /\ exc = NoExc
    /\ (pc \notin {"check_cython", "check_cython_info", "check_cython_warning"}
          => G.HTSLIB_MODE = IF env.cy_build THEN "shared" ELSE "separate")

\* The options configure_library is to try, in order: the preferred option
\* when there is one, then the listed ones.
TryOrder ==
    (IF cl.env_options /= None THEN <<cl.env_options>> ELSE << >>) \o cl.options

Succeeded(i) == attempts[i].outcome = "exit0"

\* C2: with the configure script present, the commands run are a prefix of
\* the try order (preferred option first, then the list in order); nothing is
\* run after an attempt that succeeds; configure_library returns the option
\* of the first successful attempt, and None only when every option of the
\* try order was run and none succeeded; and when
\* update_htslib_configure_options gets None, htslib/config.h is on disk with
\* the placeholder content.
C2_FirstSuccessWins ==
    /\ Len(attempts) <= Len(TryOrder)
    /\ \A i \in 1..Len(attempts) :
          /\ attempts[i].option = TryOrder[i]
          /\ (Succeeded(i) => i = Len(attempts))
    /\ (pc \in {"update_return", "returned"} /\ cl.ret /= None) =>
          /\ attempts /= << >>
          /\ Succeeded(Len(attempts))
          /\ cl.ret = attempts[Len(attempts)].option
    /\ (pc \in {"update_return", "returned"} /\ cl.ret = None) =>
          /\ Len(attempts) = Len(TryOrder)
          /\ \A i \in 1..Len(attempts) : ~Succeeded(i)
    /\ (pc = "returned" /\ entry = "update_htslib_configure_options") =>
          /\ G.htslib_configure_options = cl.ret
          /\ (cl.ret = None =>
                /\ HtslibConfigH \in exists
                /\ config_h[HtslibConfigH] = PlaceholderHeader)

\* configure_library returned its third option: the preferred option and
\* the first listed one were run and failed, the second listed one succeeded,
\* and the third listed one was never run.
C2_Witness ==
    /\ pc = "returned"
    /\ entry = "configure_library"
    /\ Len(cl.options) = 3
    /\ Len(attempts) = 3
    /\ cl.ret = cl.options[2]
    /\ cl.options[3] /= cl.options[2]

\* C6: a missing configure script raises ValueError with no configure
\* command run, the working directory never changed and no placeholder header
\* written; an attempt that exits non-zero or cannot be launched raises
\* nothing: the next option is tried, and once all are exhausted
\* update_htslib_configure_options writes the placeholder header and returns
\* None without an exception.
C6_OnlyMissingScriptIsFatal ==
    /\ exc = "ValueError" =>
          /\ Configure(<<"htslib">>) \notin exists
          /\ attempts = << >>
          /\ cwd = StartDir
          /\ cl.save_dir = << >>
          /\ config_h[HtslibConfigH] /= PlaceholderHeader
    /\ (exc /= NoExc /\ attempts /= << >>) =>
          /\ exc = "KeyboardInterrupt"
          /\ attempts[Len(attempts)].outcome = "KeyboardInterrupt"
    /\ \A i \in 1..Len(attempts) :
          (attempts[i].outcome \in {"nonzero", "OSError"} /\ i < Len(TryOrder)) =>
              (pc \in {"cl_env", "cl_loop"} \/ Len(attempts) > i)
    /\ (/\ pc = "returned"
        /\ entry = "update_htslib_configure_options"
        /\ \A i \in 1..Len(attempts) : attempts[i].outcome \in {"nonzero", "OSError"}) =>
          /\ exc = NoExc
          /\ Len(attempts) = Len(TryOrder)
          /\ G.htslib_configure_options = None
          /\ HtslibConfigH \in exists
          /\ config_h[HtslibConfigH] = PlaceholderHeader

\* update_htslib_configure_options returned None after the preferred option
\* exited non-zero and --enable-libcurl could not be launched.
C6_Witness ==
    /\ pc = "returned"
    /\ entry = "update_htslib_configure_options"
    /\ exc = NoExc
    /\ Len(attempts) = 2
    /\ attempts[1].outcome = "nonzero"
    /\ attempts[2].outcome = "OSError"
    /\ config_h[HtslibConfigH] = PlaceholderHeader

\* C8: whenever configure_library is not running (it returned, from inside
\* the loop or after it, or raised: for the missing script, or from an attempt
\* interrupted inside the library directory), the working directory is the
\* one it was called in.
C8_WorkingDirectoryRestored ==
    pc \in {"returned", "update_return", "aborted"} => cwd = StartDir

\* An attempt was interrupted inside htslib/ and the exception has left
\* configure_library.
C8_Witness ==
    /\ pc = "aborted"
    /\ exc = "KeyboardInterrupt"
    /\ cl.save_dir = StartDir
    /\ cwd = StartDir

\* The integer the last well-formed #define of `key` gives in htslib/config.h,
\* 0 when there is none.
RECURSIVE LastDefined(_, _)
LastDefined(header, key) ==
    IF header = << >> THEN 0
    ELSE LET line == header[Len(header)]
         IN  IF Len(line) = 3 /\ line[1] = "#define" /\ line[2] = key
                /\ line[3] \in DOMAIN IntLiterals
             THEN IntLiterals[line[3]]
             ELSE LastDefined(SubSeq(header, 1, Len(header) - 1), key)

\* C5 (as claimed): for every content of htslib/config.h, build_config
\* completes, and pysam/config.py then holds each of the seven whitelisted
\* keys exactly once, with the integer the header defines for it or 0, and no
\* other flag.
C5_ExtractionTotal ==
    (/\ entry = "build_config"
     /\ pc /= "build_config"
     /\ G.HTSLIB_SOURCE = "builtin"
     /\ HtslibConfigH \in exists) =>
        /\ exc = NoExc
        /\ Len(config_py.flags) = Len(WhitelistKeys)
        /\ \A i \in 1..Len(WhitelistKeys) :
              /\ config_py.flags[i].key = WhitelistKeys[i]
              /\ config_py.flags[i].value =
                    LastDefined(config_h[HtslibConfigH], WhitelistKeys[i])

ResolverPhases(configured) ==
    <<"Start", "ModeSelected", configured, "DescriptorBuilt", "FlagsExtracted",
      "ExclusionsApplied", "Done">>

ClaimedPhases(configured) ==
    <<"Start", "ModeSelected", configured, "FlagsExtracted", "DescriptorBuilt",
      "ExclusionsApplied", "Done">>

IsPrefix(xs, ys) == Len(xs) <= Len(ys) /\ xs = SubSeq(ys, 1, Len(xs))

====
